---- MODULE Spec2Model ----
(***************************************************************************)
(* Deployment coordination of webhook-server/server.py: signature guard,   *)
(* project registry, /status, /deploy with its run_deployment worker       *)
(* thread, and the deploy subprocess with its lock directory               *)
(* /tmp/infra_deploy.lock.                                                 *)
(*                                                                         *)
(* server.py only READS the lock directory (status()).  The directory is   *)
(* created, filled and removed by deploy.sh, the script run_deployment     *)
(* launches; that script is modelled from the specification (ProcAcquire,  *)
(* ProcWriteFields, ProcExit).  Everything else follows server.py.         *)
(*                                                                         *)
(* Strings the code takes apart are sequences of tokens: the ref           *)
(* "refs/heads/main" is <<"refs/heads/", "main">>.  status() is taken as   *)
(* one atomic read of the lock directory.                                  *)
(***************************************************************************)
EXTENDS Integers, Sequences, FiniteSets, TLC

\* ---------------------------------------------------------------- bounds
\* number of deploy triggers that get past the registry lookup
MaxReq == 2

ReqIds == 1..MaxReq

\* number of files of a config directory (RegSpec)
MaxFiles == 2

\* ------------------------------------------------------- request inputs
PREFIX == "refs/heads/"

RefMain == <<PREFIX, "main">>
RefDev  == <<PREFIX, "dev">>
RefBare == <<"main">>
\* the ref of a branch that is itself named refs/heads/main
RefTwice == <<PREFIX, PREFIX, "main">>

\* push payloads (request.json): repository.name and ref
Payloads == << [repo |-> "repoA", ref |-> RefMain],
               [repo |-> "repoB", ref |-> RefMain],
               [repo |-> "repoA", ref |-> RefDev],
               [repo |-> "repoA", ref |-> RefBare],
               [repo |-> "repoA", ref |-> RefTwice],
               [repo |-> "repoX", ref |-> RefMain] >>

\* a request body is the index of its payload; 0 is the empty body of a
\* request without payload
WEBHOOK_SECRET == 1

\* hexdigest of HMAC-SHA256 keyed by secret over body: injective on the
\* secrets and bodies of the model
HmacSha256(secret, body) == secret * (Len(Payloads) + 1) + body

\* values of the X-Hub-Signature-256 header
NoHeader    == [kind |-> "absent",   hex |-> 0]
EmptyHeader == [kind |-> "empty",    hex |-> 0]
NonAscii    == [kind |-> "nonascii", hex |-> 0]
Sha256(h)   == [kind |-> "sha256",   hex |-> h]

\* what a client may send as signature of body b: no header, an empty one,
\* the right one, the one of another body, the one made with another
\* secret, a string with a non-ASCII character
SigClasses == {"absent", "empty", "valid", "wrongbody", "wrongsecret",
               "nonascii"}

\* GET /health is called without a header or with one
HealthSigs == {"absent", "wrongbody"}

Header(class, b) ==
    CASE class = "absent"      -> NoHeader
      [] class = "empty"       -> EmptyHeader
      [] class = "nonascii"    -> NonAscii
      [] class = "valid"       -> Sha256(HmacSha256(WEBHOOK_SECRET, b))
      [] class = "wrongbody"   ->
             Sha256(HmacSha256(WEBHOOK_SECRET, (b + 1) % (Len(Payloads) + 1)))
      [] class = "wrongsecret" -> Sha256(HmacSha256(WEBHOOK_SECRET + 1, b))

\* ------------------------------------------------------ config documents
\* a YAML scalar string and a YAML list of strings
Str(s)  == [kind |-> "str",  v |-> s]
List(l) == [kind |-> "list", v |-> l]

DocA  == [name |-> "svcA", repos |-> <<"repoA">>,
          branch |-> Str(<<"main">>)]
DocB  == [name |-> "svcB", repos |-> <<"repoB">>,
          branch |-> List(<< <<"main">>, <<"dev">> >>)]

YmlFile(d) == [ext |-> "yml", parses |-> TRUE,  doc |-> d]
TxtFile(d) == [ext |-> "txt", parses |-> TRUE,  doc |-> d]
BadFile    == [ext |-> "yaml", parses |-> FALSE, doc |-> DocA]

\* what CONFIG_DIR may hold, in os.listdir order
Dirs == { <<YmlFile(DocA), YmlFile(DocB)>>,
          <<YmlFile(DocA), TxtFile(DocB)>>,
          <<YmlFile(DocB), BadFile>> }

InitDir == <<YmlFile(DocA), YmlFile(DocB)>>

\* dict.get(key, default)
Get(config, key, default) ==
    IF key \in DOMAIN config THEN config[key] ELSE default

\* the inner loop of load_project_configs: configs[repo] = config
RECURSIVE AddRepos(_, _, _)
AddRepos(configs, repos, config) ==
    IF repos = <<>> THEN configs
    ELSE AddRepos([r \in DOMAIN configs \cup {Head(repos)} |->
                       IF r = Head(repos) THEN config ELSE configs[r]],
                  Tail(repos), config)

\* load_project_configs: ok = FALSE when yaml.safe_load raises
RECURSIVE LoadFiles(_, _)
LoadFiles(files, configs) ==
    IF files = <<>> THEN [ok |-> TRUE, configs |-> configs]
    ELSE LET f == Head(files) IN
         IF f.ext \notin {"yml", "yaml"} THEN LoadFiles(Tail(files), configs)
         ELSE IF ~f.parses THEN [ok |-> FALSE, configs |-> configs]
         ELSE IF "repos" \in DOMAIN f.doc
              THEN LoadFiles(Tail(files),
                             AddRepos(configs, f.doc.repos, f.doc))
              ELSE LoadFiles(Tail(files), configs)

\* configs = {}
EmptyConfigs == [r \in {} |-> DocA]

load_project_configs(dir) == LoadFiles(dir, EmptyConfigs)

\* names of the projects of a mapping (reload_config's response)
ProjectNames(configs) ==
    { Get(configs[r], "name", "unknown") : r \in DOMAIN configs }

\* ------------------------------------------------------------- the state
VARIABLES
    PROJECT_CONFIGS,  \* the registry: repo -> config
    lock,             \* the lock directory /tmp/infra_deploy.lock
    req,              \* deploy requests between lookup and dispatch, with
                      \* the mapping their first registry read saw
    nreq,             \* deploy requests that got past the lookup
    worker,           \* run_deployment threads, one per accepted request
    proc,             \* deploy subprocesses, pid = request id
    released,         \* times the lock was removed for each deployment
    now,              \* the clock the started field is taken from
    last,             \* the last request served and its response
    env               \* the environment run_deployment built for Popen,
                      \* with what it was built from (EnvSpec)

vars == <<PROJECT_CONFIGS, lock, req, nreq, worker, proc,
          released, now, last, env>>

NoLock == [dir |-> FALSE, pid |-> 0, project |-> "", started |-> 0]

\* states of a subprocess in which its pid answers os.kill(pid, 0):
\* running, or terminated and not yet waited for
Running == {"launched", "acquired", "refused", "holding"}
Exited  == {"exit0", "exitN"}
LivePid(pid) == pid \in ReqIds /\ proc[pid] \in Running \cup Exited \cup {"zombie"}

\* ------------------------------------------------------ verify_signature
\* hmac.compare_digest on two strings: raises TypeError on a non-ASCII one
compare_digest(a, b) ==
    IF a.kind = "nonascii" \/ b.kind = "nonascii" THEN "raise"
    ELSE IF a = b THEN "equal" ELSE "differ"

\* the decorator's verdict on a request: "nosig", "invalid", "raise", "ok"
verify_signature(sig, body) ==
    IF sig.kind \in {"absent", "empty"} THEN "nosig"
    ELSE LET expected == Sha256(HmacSha256(WEBHOOK_SECRET, body))
             cmp == compare_digest(sig, expected)
         IN  IF cmp = "raise" THEN "raise"
             ELSE IF cmp = "differ" THEN "invalid" ELSE "ok"

\* ---------------------------------------------------------------- status
NoDetails == [deploying |-> FALSE, note |-> "", project |-> "", pid |-> 0,
              started |-> 0]

\* status() testing for a lock FILE: a lock directory is never seen
statusIsFile(l, live) == NoDetails

\* status() without the os.kill probe: a recorded pid counts as running
statusNoProbe(l, live) ==
    IF l.dir /\ l.pid # 0
    THEN [deploying |-> TRUE, note |-> "", project |-> l.project,
          pid |-> l.pid, started |-> l.started]
    ELSE NoDetails

\* status(): pid = 0 stands for a lock directory whose files are not there
status(l, live) ==
    IF l.dir
    THEN IF l.pid = 0 THEN NoDetails
         ELSE IF live
              THEN [deploying |-> TRUE, note |-> "", project |-> l.project,
                    pid |-> l.pid, started |-> l.started]
              ELSE [NoDetails EXCEPT !.note = "stale lock detected"]
    ELSE NoDetails

\* ------------------------------------------------------------- responses
\* a served request: the operation, the class of its signature, the
\* repository of its payload, the response, and for a reload what
\* CONFIG_DIR held
Response(op, sig, repo, code, msg, details) ==
    [op |-> op, sig |-> sig, repo |-> repo, code |-> code, msg |-> msg,
     details |-> details, projects |-> {}, dir |-> <<>>]

\* what the decorator answers when it does not call the wrapped function
AuthFailure(verdict) ==
    IF verdict = "nosig" THEN [code |-> 401, msg |-> "No signature"]
    ELSE IF verdict = "invalid" THEN [code |-> 401, msg |-> "Invalid signature"]
    ELSE [code |-> 500, msg |-> "Internal Server Error"]

\* ---------------------------------------------------------------- deploy
\* branch = ref.replace('refs/heads/', '') if ref.startswith(...) else ''
BranchOf(ref) ==
    IF Len(ref) > 0 /\ ref[1] = PREFIX
    THEN SelectSeq(ref, LAMBDA t : t # PREFIX)
    ELSE <<>>

DefaultBranches == << <<"main">>, <<"master">>, <<"prod">> >>

\* allowed_branches, a bare string made a one-element list
AllowedBranches(config) ==
    LET b == Get(config, "branch", List(DefaultBranches))
    IN  IF b.kind = "str" THEN <<b.v>> ELSE b.v

\* branch in allowed_branches
BranchAllowed(branch, allowed) ==
    \E i \in 1..Len(allowed) : allowed[i] = branch

\* repo_name in PROJECT_CONFIGS
Configured(repo, configs) == repo \in DOMAIN configs

\* a run_deployment thread: not started, or ended
NoWorker   == [pc |-> "none", project |-> ""]
DoneWorker == [pc |-> "done", project |-> ""]
NoReq      == [pc |-> "idle", body |-> 0, seen |-> EmptyConfigs]
DoneReq    == [pc |-> "done", body |-> 0, seen |-> EmptyConfigs]

\* ------------------------------------- the environment of the subprocess
\* a document with every key server.py reads, and a services list
DocFull == [name |-> "svcF", repos |-> <<"repoA", "repoC">>,
            branch |-> Str(<<"main">>), path |-> <<"apps/svcF">>,
            compose_file |-> <<"prod.yml">>, compose_dir |-> <<"docker">>,
            services |-> <<"web", "db">>]

EnvDocs == {DocA, DocB, DocFull}

\* os.environ of the server: any of these variables may be set
OsVars == {"PATH", "COMPOSE_FILE", "SERVICES", "BRANCH"}
OsEnvs == { [k \in S |-> <<"os", k>>] : S \in SUBSET OsVars }

HOSTING_DIR == <<"/home/bloster/Hosting">>

\* os.path.join(a, p) for a that does not end with a slash
PathJoin(a, p) ==
    IF Len(p) > 0 /\ p[1] = "/" THEN p ELSE a \o <<"/">> \o p

\* sep.join(l)
RECURSIVE Join(_, _)
Join(l, sep) ==
    IF l = <<>> THEN <<>>
    ELSE IF Len(l) = 1 THEN <<l[1]>>
    ELSE <<l[1], sep>> \o Join(Tail(l), sep)

\* {**e, **f}
Override(e, f) ==
    [k \in DOMAIN e \cup DOMAIN f |-> IF k \in DOMAIN f THEN f[k] ELSE e[k]]

\* e.pop(key, None)
Pop(e, key) == [k \in DOMAIN e \ {key} |-> e[k]]

\* env of lines 195-205
DeployEnv(osenv, config, project_name, branch) ==
    Pop(Override(osenv,
            [k \in {"PROJECT_NAME", "PROJECT_PATH", "DEPLOY_COMPOSE_FILE",
                    "COMPOSE_DIR", "REPOS", "BRANCH"} |->
                CASE k = "PROJECT_NAME" -> <<project_name>>
                  [] k = "PROJECT_PATH" ->
                         PathJoin(HOSTING_DIR, Get(config, "path", <<>>))
                  [] k = "DEPLOY_COMPOSE_FILE" ->
                         Get(config, "compose_file", <<>>)
                  [] k = "COMPOSE_DIR" -> Get(config, "compose_dir", <<>>)
                  [] k = "REPOS" -> Join(Get(config, "repos", <<>>), ",")
                  [] k = "BRANCH" -> branch]),
        "COMPOSE_FILE")

NoEnv == [built |-> FALSE, osenv |-> <<>>, config |-> DocA, ref |-> <<>>,
          vars |-> <<>>]

\* ------------------------------------------------------------------ Init
\* the module is imported with a CONFIG_DIR that loads, no lock directory
\* and no deployment
Init ==
    /\ PROJECT_CONFIGS = load_project_configs(InitDir).configs
    /\ lock = NoLock
    /\ req = [r \in ReqIds |-> NoReq]
    /\ nreq = 0
    /\ worker = [r \in ReqIds |-> NoWorker]
    /\ proc = [r \in ReqIds |-> "none"]
    /\ released = [r \in ReqIds |-> 0]
    /\ now = 0
    /\ last = Response("none", "absent", "", 0, "", NoDetails)
    /\ env = NoEnv

\* ------------------------------------------------- the signature guard
\* decorated_function returning before f is called
AuthReject(op, b, sig) ==
    /\ verify_signature(Header(sig, b), b) # "ok"
    /\ last' = Response(op, sig, "",
                        AuthFailure(verify_signature(Header(sig, b), b)).code,
                        AuthFailure(verify_signature(Header(sig, b), b)).msg,
                        NoDetails)
    /\ UNCHANGED <<PROJECT_CONFIGS, lock, req, nreq, worker,
                   proc, released, now>>
    /\ UNCHANGED env

\* ------------------------------------------------------- GET /health
Health(sig) ==
    /\ last' = Response("health", sig, "", 200, "healthy", NoDetails)
    /\ UNCHANGED <<PROJECT_CONFIGS, lock, req, nreq, worker,
                   proc, released, now>>
    /\ UNCHANGED env

\* ------------------------------------------------------ GET /projects
list_projects(sig) ==
    /\ verify_signature(Header(sig, 0), 0) = "ok"
    /\ last' = [Response("projects", sig, "", 200, "", NoDetails)
                  EXCEPT !.projects = ProjectNames(PROJECT_CONFIGS)]
    /\ UNCHANGED <<PROJECT_CONFIGS, lock, req, nreq, worker,
                   proc, released, now>>
    /\ UNCHANGED env

ListProjects(sig) == AuthReject("projects", 0, sig) \/ list_projects(sig)

\* -------------------------------------------------------- GET /status
Status ==
    /\ last' = Response("status", "absent", "", 200, "",
                        status(lock, LivePid(lock.pid)))
    /\ UNCHANGED <<PROJECT_CONFIGS, lock, req, nreq, worker,
                   proc, released, now>>
    /\ UNCHANGED env

\* ------------------------------------------------ POST /reload-config
\* reload_config filling the registry in place: what was loaded before a
\* document failed to parse stays in PROJECT_CONFIGS
reload_configInPlace(sig, dir) ==
    /\ verify_signature(Header(sig, 0), 0) = "ok"
    /\ LET load == load_project_configs(dir) IN
        /\ PROJECT_CONFIGS' = load.configs
        /\ last' = IF load.ok
                   THEN [Response("reload", sig, "", 200,
                                  "Configuration reloaded", NoDetails)
                          EXCEPT !.projects = ProjectNames(load.configs),
                                 !.dir = dir]
                   ELSE [Response("reload", sig, "", 500,
                                  "Internal Server Error", NoDetails)
                          EXCEPT !.dir = dir]
    /\ UNCHANGED <<lock, req, nreq, worker, proc, released, now>>
    /\ UNCHANGED env

\* reload_config updating the registry with what was loaded: the entries
\* of the previous mapping that no document lists stay
reload_configUpdate(sig, dir) ==
    /\ verify_signature(Header(sig, 0), 0) = "ok"
    /\ LET load == load_project_configs(dir)
           new  == [r \in DOMAIN PROJECT_CONFIGS \cup DOMAIN load.configs |->
                       IF r \in DOMAIN load.configs THEN load.configs[r]
                       ELSE PROJECT_CONFIGS[r]]
       IN
        IF load.ok
        THEN /\ PROJECT_CONFIGS' = new
             /\ last' = [Response("reload", sig, "", 200,
                                  "Configuration reloaded", NoDetails)
                          EXCEPT !.projects = ProjectNames(new),
                                 !.dir = dir]
        ELSE /\ PROJECT_CONFIGS' = PROJECT_CONFIGS
             /\ last' = [Response("reload", sig, "", 500,
                                  "Internal Server Error", NoDetails)
                          EXCEPT !.dir = dir]
    /\ UNCHANGED <<lock, req, nreq, worker, proc, released, now>>
    /\ UNCHANGED env

\* dir is what CONFIG_DIR holds when the request is served.  A document
\* that does not parse makes load_project_configs raise before the
\* assignment to PROJECT_CONFIGS
reload_config(sig, dir) ==
    /\ verify_signature(Header(sig, 0), 0) = "ok"
    /\ LET load == load_project_configs(dir) IN
        IF load.ok
        THEN /\ PROJECT_CONFIGS' = load.configs
             /\ last' = [Response("reload", sig, "", 200,
                                  "Configuration reloaded", NoDetails)
                          EXCEPT !.projects = ProjectNames(load.configs),
                                 !.dir = dir]
        ELSE /\ PROJECT_CONFIGS' = PROJECT_CONFIGS
             /\ last' = [Response("reload", sig, "", 500,
                                  "Internal Server Error", NoDetails)
                          EXCEPT !.dir = dir]
    /\ UNCHANGED <<lock, req, nreq, worker, proc, released, now>>
    /\ UNCHANGED env

Reload(sig, dir) == AuthReject("reload", 0, sig) \/ reload_config(sig, dir)

\* -------------------------------------------------------- POST /deploy
\* deploy() answering 404 to a repository that is not configured
DeployResolve404(b, sig) ==
    /\ verify_signature(Header(sig, b), b) = "ok"
    /\ IF ~Configured(Payloads[b].repo, PROJECT_CONFIGS)
       THEN /\ last' = Response("deploy", sig, Payloads[b].repo, 404,
                                "not configured", NoDetails)
            /\ UNCHANGED <<req, nreq>>
       ELSE /\ nreq < MaxReq
            /\ nreq' = nreq + 1
            /\ req' = [req EXCEPT ![nreq + 1] =
                          [pc |-> "lookup", body |-> b,
                           seen |-> PROJECT_CONFIGS]]
            /\ UNCHANGED last
    /\ UNCHANGED <<PROJECT_CONFIGS, lock, worker, proc,
                   released, now>>
    /\ UNCHANGED env

\* deploy() with the busy check put before the registry lookup
DeployResolveBusyFirst(b, sig) ==
    /\ verify_signature(Header(sig, b), b) = "ok"
    /\ IF status(lock, LivePid(lock.pid)).deploying
       THEN /\ last' = Response("deploy", sig, Payloads[b].repo, 503,
                                "busy", status(lock, LivePid(lock.pid)))
            /\ UNCHANGED <<req, nreq>>
       ELSE IF ~Configured(Payloads[b].repo, PROJECT_CONFIGS)
       THEN /\ last' = Response("deploy", sig, Payloads[b].repo, 200,
                                "not configured", NoDetails)
            /\ UNCHANGED <<req, nreq>>
       ELSE /\ nreq < MaxReq
            /\ nreq' = nreq + 1
            /\ req' = [req EXCEPT ![nreq + 1] =
                          [pc |-> "lookup", body |-> b,
                           seen |-> PROJECT_CONFIGS]]
            /\ UNCHANGED last
    /\ UNCHANGED <<PROJECT_CONFIGS, lock, worker, proc,
                   released, now>>
    /\ UNCHANGED env

\* deploy() up to the registry lookup of line 159
DeployResolve(b, sig) ==
    /\ verify_signature(Header(sig, b), b) = "ok"
    /\ IF ~Configured(Payloads[b].repo, PROJECT_CONFIGS)
       THEN /\ last' = Response("deploy", sig, Payloads[b].repo, 200,
                                "not configured", NoDetails)
            /\ UNCHANGED <<req, nreq>>
       ELSE /\ nreq < MaxReq
            /\ nreq' = nreq + 1
            /\ req' = [req EXCEPT ![nreq + 1] =
                          [pc |-> "lookup", body |-> b,
                           seen |-> PROJECT_CONFIGS]]
            /\ UNCHANGED last
    /\ UNCHANGED <<PROJECT_CONFIGS, lock, worker, proc,
                   released, now>>
    /\ UNCHANGED env

DeployReceive(b, sig) == AuthReject("deploy", b, sig) \/ DeployResolve(b, sig)

\* deploy() from line 163 with the busy check put before the branch filter
DeployDispatchBusyFirst(r) ==
    /\ req[r].pc = "lookup"
    /\ req' = [req EXCEPT ![r] = DoneReq]
    /\ LET b    == req[r].body
           sig  == "valid"
           repo == Payloads[b].repo
           branch == BranchOf(Payloads[b].ref)
           st   == status(lock, LivePid(lock.pid))
       IN
       IF ~(repo \in DOMAIN PROJECT_CONFIGS)
       THEN /\ last' = Response("deploy", sig, repo, 500,
                                "Internal Server Error", NoDetails)
            /\ UNCHANGED worker
       ELSE IF st.deploying
       THEN /\ last' = Response("deploy", sig, repo, 503, "busy", st)
            /\ UNCHANGED worker
       ELSE IF ~BranchAllowed(branch, AllowedBranches(PROJECT_CONFIGS[repo]))
       THEN /\ last' = Response("deploy", sig, repo, 200,
                                "branch not configured", NoDetails)
            /\ UNCHANGED worker
       ELSE /\ worker' = [worker EXCEPT ![r] =
                  [pc |-> "start",
                   project |-> Get(PROJECT_CONFIGS[repo], "name", repo)]]
            /\ last' = Response("deploy", sig, repo, 202, "accepted", NoDetails)
    /\ UNCHANGED <<PROJECT_CONFIGS, lock, nreq, proc, released,
                   now>>
    /\ UNCHANGED env

\* deploy() from line 163 with thread.join() after thread.start(): the
\* handler answers 202 when run_deployment has ended
DeployDispatchJoin(r) ==
    /\ req[r].pc = "lookup"
    /\ LET b    == req[r].body
           sig  == "valid"
           repo == Payloads[b].repo
           branch == BranchOf(Payloads[b].ref)
           st   == status(lock, LivePid(lock.pid))
       IN
       IF worker[r].pc # "none"
       THEN /\ worker[r].pc = "done"
            /\ req' = [req EXCEPT ![r] = DoneReq]
            /\ last' = Response("deploy", sig, repo, 202, "accepted", NoDetails)
            /\ UNCHANGED worker
       ELSE IF ~(repo \in DOMAIN PROJECT_CONFIGS)
       THEN /\ req' = [req EXCEPT ![r] = DoneReq]
            /\ last' = Response("deploy", sig, repo, 500,
                                "Internal Server Error", NoDetails)
            /\ UNCHANGED worker
       ELSE IF ~BranchAllowed(branch, AllowedBranches(PROJECT_CONFIGS[repo]))
       THEN /\ req' = [req EXCEPT ![r] = DoneReq]
            /\ last' = Response("deploy", sig, repo, 200,
                                "branch not configured", NoDetails)
            /\ UNCHANGED worker
       ELSE IF st.deploying
       THEN /\ req' = [req EXCEPT ![r] = DoneReq]
            /\ last' = Response("deploy", sig, repo, 503, "busy", st)
            /\ UNCHANGED worker
       ELSE /\ worker' = [worker EXCEPT ![r] =
                  [pc |-> "start",
                   project |-> Get(PROJECT_CONFIGS[repo], "name", repo)]]
            /\ UNCHANGED <<req, last>>
    /\ UNCHANGED <<PROJECT_CONFIGS, lock, nreq, proc, released,
                   now>>
    /\ UNCHANGED env

\* deploy() from line 163 with thread.start() put before the busy check:
\* a trigger answered busy has its worker started too
DeployDispatchStartFirst(r) ==
    /\ req[r].pc = "lookup"
    /\ req' = [req EXCEPT ![r] = DoneReq]
    /\ LET b    == req[r].body
           sig  == "valid"
           repo == Payloads[b].repo
           branch == BranchOf(Payloads[b].ref)
           st   == status(lock, LivePid(lock.pid))
       IN
       IF ~(repo \in DOMAIN PROJECT_CONFIGS)
       THEN /\ last' = Response("deploy", sig, repo, 500,
                                "Internal Server Error", NoDetails)
            /\ UNCHANGED worker
       ELSE IF ~BranchAllowed(branch, AllowedBranches(PROJECT_CONFIGS[repo]))
       THEN /\ last' = Response("deploy", sig, repo, 200,
                                "branch not configured", NoDetails)
            /\ UNCHANGED worker
       ELSE /\ worker' = [worker EXCEPT ![r] =
                  [pc |-> "start",
                   project |-> Get(PROJECT_CONFIGS[repo], "name", repo)]]
            /\ last' = IF st.deploying
                       THEN Response("deploy", sig, repo, 503, "busy", st)
                       ELSE Response("deploy", sig, repo, 202, "accepted",
                                     NoDetails)
    /\ UNCHANGED <<PROJECT_CONFIGS, lock, nreq, proc, released,
                   now>>
    /\ UNCHANGED env

\* deploy() from line 163: the second read of PROJECT_CONFIGS, the branch
\* filter, the busy check and thread.start()
DeployDispatch(r) ==
    /\ req[r].pc = "lookup"
    /\ req' = [req EXCEPT ![r] = DoneReq]
    /\ LET b    == req[r].body
           \* the request passed verify_signature
           sig  == "valid"
           repo == Payloads[b].repo
           branch == BranchOf(Payloads[b].ref)
           st   == status(lock, LivePid(lock.pid))
       IN
       IF ~(repo \in DOMAIN PROJECT_CONFIGS)
       THEN \* KeyError
            /\ last' = Response("deploy", sig, repo, 500,
                                "Internal Server Error", NoDetails)
            /\ UNCHANGED worker
       ELSE IF ~BranchAllowed(branch, AllowedBranches(PROJECT_CONFIGS[repo]))
       THEN /\ last' = Response("deploy", sig, repo, 200,
                                "branch not configured", NoDetails)
            /\ UNCHANGED worker
       ELSE IF st.deploying
       THEN /\ last' = Response("deploy", sig, repo, 503, "busy", st)
            /\ UNCHANGED worker
       ELSE /\ worker' = [worker EXCEPT ![r] =
                  [pc |-> "start",
                   project |-> Get(PROJECT_CONFIGS[repo], "name", repo)]]
            /\ last' = Response("deploy", sig, repo, 202, "accepted", NoDetails)
    /\ UNCHANGED <<PROJECT_CONFIGS, lock, nreq, proc, released,
                   now>>
    /\ UNCHANGED env

\* ------------------------------------------------------ run_deployment
\* subprocess._cleanup(), run by every Popen: waits for the children whose
\* Popen object was dropped while they had not been waited for
Cleanup(procs) ==
    [p \in ReqIds |-> IF procs[p] = "zombie" THEN "gone" ELSE procs[p]]

\* subprocess.Popen starts the script
WorkerLaunch(r) ==
    /\ worker[r].pc = "start"
    /\ worker' = [worker EXCEPT ![r].pc = "communicate"]
    /\ proc' = [Cleanup(proc) EXCEPT ![r] = "launched"]
    /\ UNCHANGED <<PROJECT_CONFIGS, lock, req, nreq, released,
                   now, last>>
    /\ UNCHANGED env

\* subprocess.Popen raises: except Exception logs it and the thread ends
WorkerLaunchFail(r) ==
    /\ worker[r].pc = "start"
    /\ worker' = [worker EXCEPT ![r] = DoneWorker]
    /\ UNCHANGED <<PROJECT_CONFIGS, lock, req, nreq, proc,
                   released, now, last>>
    /\ UNCHANGED env

\* process.communicate returns: the child has ended and is waited for
WorkerCommunicate(r) ==
    /\ worker[r].pc = "communicate"
    /\ proc[r] \in Exited
    /\ worker' = [worker EXCEPT ![r] = DoneWorker]
    /\ proc' = [proc EXCEPT ![r] = "gone"]
    /\ UNCHANGED <<PROJECT_CONFIGS, lock, req, nreq, released,
                   now, last>>
    /\ UNCHANGED env

\* communicate raises TimeoutExpired after 600 s: process.kill(), a log
\* line, and the thread ends.  The killed child is waited for when the
\* Popen object is dropped if it is dead by then (reaped = TRUE), by a
\* later Popen otherwise
WorkerTimeout(r, reaped) ==
    /\ worker[r].pc = "communicate"
    /\ proc[r] \in Running
    /\ worker' = [worker EXCEPT ![r] = DoneWorker]
    /\ proc' = [proc EXCEPT ![r] = IF reaped THEN "gone" ELSE "zombie"]
    /\ UNCHANGED <<PROJECT_CONFIGS, lock, req, nreq, released,
                   now, last>>
    /\ UNCHANGED env

\* subprocess.run of /api/system, /api/docker and /api/ssl: a Popen
ApiSubprocessRun ==
    /\ \E p \in ReqIds : proc[p] = "zombie"
    /\ proc' = Cleanup(proc)
    /\ UNCHANGED <<PROJECT_CONFIGS, lock, req, nreq, worker,
                   released, now, last>>
    /\ UNCHANGED env

\* run_deployment of an accepted trigger builds the environment of its
\* subprocess: osenv is os.environ, config the document of the repository
\* and ref the ref of the payload
BuildEnv(osenv, config, repo, ref) ==
    /\ repo \in { config.repos[i] : i \in 1..Len(config.repos) }
    /\ BranchAllowed(BranchOf(ref), AllowedBranches(config))
    /\ env' = [built |-> TRUE, osenv |-> osenv, config |-> config,
               ref |-> ref,
               vars |-> DeployEnv(osenv, config, Get(config, "name", repo),
                                  BranchOf(ref))]
    /\ UNCHANGED <<PROJECT_CONFIGS, lock, req, nreq, worker, proc,
                   released, now, last>>

\* ----------------------------------------------- the deploy subprocess
\* acquire that creates the directory whether or not it is there
ProcAcquireNoCheck(p) ==
    /\ proc[p] = "launched"
    /\ proc' = [proc EXCEPT ![p] = "acquired"]
    /\ lock' = [NoLock EXCEPT !.dir = TRUE]
    /\ UNCHANGED <<PROJECT_CONFIGS, req, nreq, worker, released,
                   now, last>>
    /\ UNCHANGED env

\* acquire that takes over a lock directory whose recorded pid is dead
ProcAcquireTakeover(p) ==
    /\ proc[p] = "launched"
    /\ IF lock.dir /\ ~(lock.pid # 0 /\ ~LivePid(lock.pid))
       THEN /\ proc' = [proc EXCEPT ![p] = "refused"]
            /\ UNCHANGED lock
       ELSE /\ proc' = [proc EXCEPT ![p] = "acquired"]
            /\ lock' = [NoLock EXCEPT !.dir = TRUE]
    /\ UNCHANGED <<PROJECT_CONFIGS, req, nreq, worker, released,
                   now, last>>
    /\ UNCHANGED env

\* acquire: atomic create-if-absent of the lock directory
ProcAcquire(p) ==
    /\ proc[p] = "launched"
    /\ IF lock.dir
       THEN /\ proc' = [proc EXCEPT ![p] = "refused"]
            /\ UNCHANGED lock
       ELSE /\ proc' = [proc EXCEPT ![p] = "acquired"]
            /\ lock' = [NoLock EXCEPT !.dir = TRUE]
    /\ UNCHANGED <<PROJECT_CONFIGS, req, nreq, worker, released,
                   now, last>>
    /\ UNCHANGED env

\* the holder writes the pid, project and started fields
ProcWriteFields(p) ==
    /\ proc[p] = "acquired"
    /\ proc' = [proc EXCEPT ![p] = "holding"]
    /\ now' = now + 1
    /\ lock' = [dir |-> TRUE, pid |-> p, project |-> worker[p].project,
                started |-> now + 1]
    /\ UNCHANGED <<PROJECT_CONFIGS, req, nreq, worker, released,
                   last>>
    /\ UNCHANGED env

\* the script ends with exit code 0 (ok) or another one: the holder
\* releases the lock, a refused script leaves the holder's lock alone
ProcExit(p, ok) ==
    /\ proc[p] \in Running \ {"launched"}
    /\ proc[p] = "refused" => ~ok
    /\ proc' = [proc EXCEPT ![p] = IF ok THEN "exit0" ELSE "exitN"]
    /\ IF proc[p] = "refused"
       THEN UNCHANGED <<lock, released>>
       ELSE /\ lock' = NoLock
            /\ released' = [released EXCEPT ![p] = @ + 1]
    /\ UNCHANGED <<PROJECT_CONFIGS, req, nreq, worker, now, last>>
    /\ UNCHANGED env

\* ------------------------------------------------------------------ Next
\* the steps of the worker threads and of the deploy subprocesses
Deployment ==
    \/ \E r \in ReqIds : WorkerLaunch(r)
    \/ \E r \in ReqIds : WorkerLaunchFail(r)
    \/ \E r \in ReqIds : WorkerCommunicate(r)
    \/ \E r \in ReqIds : \E reaped \in BOOLEAN : WorkerTimeout(r, reaped)
    \/ ApiSubprocessRun
    \/ \E p \in ReqIds : ProcAcquire(p)
    \/ \E p \in ReqIds : ProcWriteFields(p)
    \/ \E p \in ReqIds : \E ok \in BOOLEAN : ProcExit(p, ok)

\* the requests that get past the signature guard, and the deployments
Next ==
    \/ Health("absent")
    \/ \E sig \in SigClasses : list_projects(sig)
    \/ Status
    \/ \E sig \in SigClasses : \E d \in Dirs : reload_config(sig, d)
    \/ \E b \in 1..Len(Payloads) : \E sig \in SigClasses :
           DeployResolve(b, sig)
    \/ \E r \in ReqIds : DeployDispatch(r)
    \/ Deployment

Spec == Init /\ [][Next]_vars

\* every request a client can send, and the deployments
AuthNext ==
    \/ \E sig \in HealthSigs : Health(sig)
    \/ \E sig \in SigClasses : ListProjects(sig)
    \/ Status
    \/ \E sig \in SigClasses : \E d \in Dirs : Reload(sig, d)
    \/ \E b \in 1..Len(Payloads) : \E sig \in SigClasses :
           DeployReceive(b, sig)
    \/ \E r \in ReqIds : DeployDispatch(r)
    \/ Deployment

AuthSpec == Init /\ [][AuthNext]_vars

\* signatures of the deploy triggers the guard rejects: none, a wrong one
TriggerSigs == {"absent", "wrongbody"}

\* the deploy triggers with and without a valid signature, the reloads
\* and the deployments
TriggerNext ==
    \/ \E sig \in SigClasses : \E d \in Dirs : reload_config(sig, d)
    \/ \E b \in 1..Len(Payloads) : \E sig \in SigClasses :
           DeployResolve(b, sig)
    \/ \E sig \in TriggerSigs : AuthReject("deploy", 1, sig)
    \/ \E r \in ReqIds : DeployDispatch(r)
    \/ Deployment

TriggerSpec == Init /\ [][TriggerNext]_vars

\* files a config directory may hold: documents that list repos, some of
\* them the same repo, a document without repos, a file that is not YAML
\* and a document that does not parse
DocNoRepos == [name |-> "svcN"]

RegFiles == {YmlFile(DocA), YmlFile(DocB), YmlFile(DocFull),
             YmlFile(DocNoRepos), TxtFile(DocB), BadFile}

\* the directories of at most MaxFiles files, in os.listdir order
RegDirs == UNION { [1..n -> RegFiles] : n \in 0..MaxFiles }

\* the reloads of any such directory and the listings of the registry
RegNext ==
    \/ \E d \in RegDirs : reload_config("valid", d)
    \/ list_projects("valid")

RegSpec == Init /\ [][RegNext]_vars

\* the environments run_deployment builds
EnvNext ==
    \E osenv \in OsEnvs : \E config \in EnvDocs :
        \E repo \in {"repoA", "repoB", "repoC"} :
            \E b \in 1..Len(Payloads) :
                BuildEnv(osenv, config, repo, Payloads[b].ref)

EnvSpec == Init /\ [][EnvNext]_vars

\* ================================================================ claims
Holders == {p \in ReqIds : proc[p] \in {"acquired", "holding"}}

\* the handler of request r runs deploy() from line 163 in this step
Dispatches(r) == req[r].pc = "lookup" /\ req'[r].pc = "done"

\* the payload of request r passes the lookup and the branch filter
PassesFilter(r) ==
    /\ Payloads[req[r].body].repo \in DOMAIN PROJECT_CONFIGS
    /\ BranchAllowed(BranchOf(Payloads[req[r].body].ref),
           AllowedBranches(PROJECT_CONFIGS[Payloads[req[r].body].repo]))

\* the lock record is complete and its pid is a live process
HeldByLive == lock.dir /\ lock.pid # 0 /\ LivePid(lock.pid)

\* the lock record is complete and its pid is not a live process
StaleLock == lock.dir /\ lock.pid # 0 /\ ~LivePid(lock.pid)

\* C1: single-flight: in every reachable state at most one deploy
\* subprocess is running.
C1_SingleFlight == Cardinality({p \in ReqIds : proc[p] \in Running}) <= 1

\* C2: lock acquisition is an atomic create-if-absent: at most one
\* subprocess holds the lock at any time, a holder's lock directory exists,
\* and a complete lock record is the one its holder wrote.
C2_AtomicAcquire ==
    /\ Cardinality(Holders) <= 1
    /\ \A p \in Holders : lock.dir
    /\ \A p \in ReqIds : proc[p] = "holding" =>
           lock.pid = p /\ lock.project = worker[p].project

\* two triggers raced past the busy check: one subprocess holds the lock
\* and the other one observed already_held
C2_Witness ==
    \E p, q \in ReqIds : proc[p] \in {"acquired", "holding"} /\ proc[q] = "refused"

\* C3: whenever a deploy subprocess launched by an accepted trigger is
\* running, a lock record exists whose project field is that project's
\* name.
C3_LockBeforeLaunch ==
    \A p \in ReqIds : proc[p] \in Running =>
        lock.dir /\ lock.project = worker[p].project

\* C4: a worker that has ended released the deployment lock exactly once,
\* whatever the outcome (exit 0, exit non-zero, timeout and kill, launch
\* failure).
C4_ReleasedOnce ==
    \A r \in ReqIds : worker[r].pc = "done" => released[r] = 1

\* C5: once the accepted deployments have finished, the lock record is
\* absent and status reports deploying = false.
C5_IdleAfterFinish ==
    ( /\ \E r \in ReqIds : worker[r].pc = "done"
      /\ \A r \in ReqIds : worker[r].pc \in {"none", "done"}
      /\ \A r \in ReqIds : proc[r] \notin Running )
    => ~lock.dir /\ ~status(lock, LivePid(lock.pid)).deploying

\* C6: a trigger for a configured repo and an allowed branch that is
\* dispatched while a live process holds the lock is answered 503 with the
\* holder's project, pid and start time, and the step leaves the lock
\* record, the workers and the subprocesses as they were.
C6_BusyRejected ==
    [][\A r \in ReqIds :
         (Dispatches(r) /\ PassesFilter(r) /\ HeldByLive) =>
            /\ last'.op = "deploy" /\ last'.code = 503
            /\ last'.details.deploying
            /\ last'.details.project = lock.project
            /\ last'.details.pid = lock.pid
            /\ last'.details.started = lock.started
            /\ lock' = lock /\ worker' = worker /\ proc' = proc]_vars

\* a busy answer was given and the holder is still running
C6_Witness ==
    /\ last.op = "deploy" /\ last.code = 503
    /\ HeldByLive /\ last.details.pid = lock.pid

\* C7: a validly signed trigger answered before the second registry read,
\* whose repository is not a key of the registry, gets the 200 "not
\* configured" response, and the step changes neither the lock record nor
\* the workers, the subprocesses or the pending requests.
C7_NotConfigured ==
    [][(/\ last' # last /\ last'.op = "deploy" /\ last'.sig = "valid"
        /\ req' = req
        /\ ~(last'.repo \in DOMAIN PROJECT_CONFIGS)) =>
            /\ last'.code = 200 /\ last'.msg = "not configured"
            /\ last'.details = NoDetails
            /\ lock' = lock /\ worker' = worker /\ proc' = proc
            /\ nreq' = nreq /\ released' = released]_vars

\* an unconfigured repository got its answer while the lock was held by a
\* live deployment
C7_Witness ==
    /\ last.op = "deploy" /\ last.msg = "not configured" /\ last.code = 200
    /\ ~(last.repo \in DOMAIN PROJECT_CONFIGS)
    /\ HeldByLive

\* C8: a trigger for a configured repo whose derived branch is not among
\* the project's allowed branches gets the 200 "branch not configured"
\* response; neither the step that receives it nor the step that answers
\* it changes the lock record, the workers or the subprocesses.
C8_BranchNotConfigured ==
    [][\A r \in ReqIds :
         /\ (req[r].pc = "idle" /\ req'[r].pc = "lookup") =>
                lock' = lock /\ worker' = worker /\ proc' = proc
         /\ ( /\ Dispatches(r)
              /\ Payloads[req[r].body].repo \in DOMAIN PROJECT_CONFIGS
              /\ ~PassesFilter(r) ) =>
                /\ last'.op = "deploy" /\ last'.code = 200
                /\ last'.msg = "branch not configured"
                /\ lock' = lock /\ worker' = worker /\ proc' = proc]_vars

\* a disallowed branch got its answer while the lock was held by a live
\* deployment
C8_Witness ==
    /\ last.op = "deploy" /\ last.msg = "branch not configured"
    /\ last.code = 200
    /\ HeldByLive

\* C9: a status request never changes the lock record, and when the record
\* exists with a pid that is not a live process it answers deploying =
\* false with the note "stale lock detected".
C9_StatusReadOnly ==
    [][(last' # last /\ last'.op = "status") =>
          /\ lock' = lock
          /\ StaleLock =>
                /\ ~last'.details.deploying
                /\ last'.details.note = "stale lock detected"]_vars

\* status answered with the staleness note and the stale record is there
C9_Witness ==
    /\ last.op = "status" /\ last.details.note = "stale lock detected"
    /\ StaleLock /\ lock.project # ""

\* C10: a project-listing, deploy-trigger or config-reload request whose
\* signature is missing or does not match the body is answered 401 and
\* changes nothing else; the health check is served without a signature.
C10_GuardRejects401 ==
    [][/\ ( /\ last' # last
            /\ last'.op \in {"projects", "deploy", "reload"}
            /\ last'.sig # "valid" ) =>
               /\ last'.code = 401
               /\ UNCHANGED <<PROJECT_CONFIGS, lock, req, nreq,
                              worker, proc, released, now>>
       /\ (last' # last /\ last'.op = "health") => last'.code = 200]_vars

\* C11: a reload is atomic for concurrent readers: a request takes all of
\* its registry reads from one mapping.  list_projects reads PROJECT_CONFIGS
\* once; deploy() reads it at line 159 and again from line 163, so the
\* mapping of the second read is the mapping the first read saw.
C11_ReloadAtomicForReaders ==
    [][\A r \in ReqIds :
          Dispatches(r) => PROJECT_CONFIGS = req[r].seen]_vars

\* C12: the request path of the deploy trigger never waits for the
\* deployment: the handler answers 202 in the step that starts the worker
\* thread, when the subprocess of that worker has not been launched and so
\* has no outcome, and by the time a subprocess exists its handler has
\* returned.
C12_AcceptedWithoutWaiting ==
    [][/\ \A r \in ReqIds :
            (worker[r].pc = "none" /\ worker'[r].pc # "none") =>
               /\ Dispatches(r)
               /\ last'.op = "deploy" /\ last'.code = 202
               /\ worker'[r].pc = "start" /\ proc'[r] = "none"
       /\ \A r \in ReqIds :
            (Dispatches(r) /\ last'.code = 202) => proc'[r] = "none"
       /\ \A r \in ReqIds : proc'[r] # "none" => req'[r].pc = "done"]_vars

\* the 202 answer has been given and the subprocess is still running
C12_Witness ==
    /\ last.op = "deploy" /\ last.code = 202
    /\ \E r \in ReqIds :
          /\ req[r].pc = "done"
          /\ worker[r].pc = "communicate"
          /\ proc[r] \in Running

\* C13: the environment given to the deploy subprocess defines
\* PROJECT_NAME, PROJECT_PATH, DEPLOY_COMPOSE_FILE, COMPOSE_DIR, REPOS
\* (the repos joined by commas), BRANCH and SERVICES (the services joined
\* by commas), and holds no COMPOSE_FILE whatever os.environ holds.
C13_DeployEnv ==
    env.built =>
        /\ {"PROJECT_NAME", "PROJECT_PATH", "DEPLOY_COMPOSE_FILE",
            "COMPOSE_DIR", "REPOS", "BRANCH", "SERVICES"}
               \subseteq DOMAIN env.vars
        /\ "COMPOSE_FILE" \notin DOMAIN env.vars
        /\ env.vars["REPOS"] = Join(env.config.repos, ",")
        /\ env.vars["BRANCH"] = BranchOf(env.ref)
        /\ env.vars["SERVICES"] = Join(Get(env.config, "services", <<>>), ",")

\* C14: a stale lock record (its recorded pid is dead) is never removed or
\* overwritten: whatever step is taken from a state with a stale record, a
\* status query, a deploy trigger, a worker or subprocess step or a config
\* reload, the record is there afterwards with the same pid, project and
\* started values.
C14_StaleLockStays ==
    [][StaleLock => (lock' = lock /\ StaleLock')]_vars

\* the record of a dead deployment is there, and the deployment of a later
\* accepted trigger has run to its end without removing a lock
C14_Witness ==
    /\ StaleLock
    /\ last.op = "deploy" /\ last.code = 202
    /\ \E p \in ReqIds :
          /\ p > lock.pid
          /\ worker[p].pc = "done" /\ proc[p] = "gone"
          /\ released[p] = 0

\* C15: whenever the lock directory exists, a status request answers
\* deploying = true unless the recorded pid is not a live process; this
\* includes the state where the directory has been created and its pid,
\* project and started fields have not been written yet.
C15_DirMeansBusy ==
    [][(last' # last /\ last'.op = "status" /\ lock.dir /\ ~StaleLock) =>
          last'.details.deploying]_vars

\* C16: a deploy trigger passes the branch filter (it is answered busy or
\* accepted) only if its ref is exactly "refs/heads/" followed by a branch
\* name that is a member of the project's allowed branches; a ref without
\* that prefix never passes.
C16_BranchFilterExact ==
    [][\A r \in ReqIds :
          (Dispatches(r) /\ last'.code \in {202, 503}) =>
              LET ref == Payloads[req[r].body].ref
                  allowed == AllowedBranches(
                                 PROJECT_CONFIGS[Payloads[req[r].body].repo])
              IN  \E i \in 1..Len(allowed) : ref = <<PREFIX>> \o allowed[i]]_vars

\* C17: deploy() checks in the order lookup, branch filter, busy check,
\* dispatch: a 503 is only given by the step that runs the busy check, to
\* a trigger whose repo is configured and whose branch is allowed; while a
\* live deployment holds the lock, a trigger for an unconfigured repo and
\* a trigger for a disallowed branch still get their 200 answer.
C17_CheckOrder ==
    [][/\ (last' # last /\ last'.op = "deploy" /\ last'.code = 503) =>
              \E r \in ReqIds : Dispatches(r) /\ PassesFilter(r)
       /\ \A r \in ReqIds : (Dispatches(r) /\ last'.code = 503) =>
              PassesFilter(r)
       /\ ( /\ HeldByLive
            /\ last' # last /\ last'.op = "deploy" /\ last'.sig = "valid"
            /\ req' = req ) =>
              last'.code = 200 /\ last'.msg = "not configured"
       /\ \A r \in ReqIds :
            ( /\ HeldByLive /\ Dispatches(r)
              /\ Payloads[req[r].body].repo \in DOMAIN PROJECT_CONFIGS
              /\ ~PassesFilter(r) ) =>
                 last'.code = 200 /\ last'.msg = "branch not configured"]_vars

\* a no-op 200 was answered to a trigger while the holder of the lock was
\* running its deployment
C17_Witness ==
    /\ last.op = "deploy" /\ last.code = 200
    /\ last.msg \in {"not configured", "branch not configured"}
    /\ lock.dir /\ lock.pid \in ReqIds /\ proc[lock.pid] = "holding"
    /\ worker[lock.pid].pc = "communicate"

\* the worker threads started by this step
Started == {r \in ReqIds : worker[r].pc = "none" /\ worker'[r].pc # "none"}

\* this step answers a deploy trigger
AnswersTrigger ==
    \/ \E r \in ReqIds : Dispatches(r)
    \/ last' # last /\ last'.op = "deploy"

\* C18: exactly one worker is started for each deploy trigger answered 202,
\* and no worker and no subprocess is started for a trigger answered 401,
\* with one of the 200 no-op responses, or 503; workers are started by
\* nothing else.
C18_OneWorkerPerAccepted ==
    [][/\ \A r \in ReqIds :
            (Dispatches(r) /\ last'.code = 202) => Started = {r}
       /\ (AnswersTrigger /\ last'.code \in {401, 200, 503}) =>
              Started = {} /\ worker' = worker /\ proc' = proc
       /\ Started # {} =>
              /\ Cardinality(Started) = 1
              /\ last'.op = "deploy" /\ last'.code = 202
              /\ \A r \in Started : Dispatches(r) /\ worker'[r].pc = "start"
       /\ \A p \in ReqIds : (proc[p] = "none" /\ proc'[p] # "none") =>
              worker[p].pc = "start"]_vars

\* triggers were answered 401 and 202, and the accepted one has its worker
C18_Witness ==
    /\ last.op = "deploy" /\ last.code = 401
    /\ nreq = 1
    /\ req[1].pc = "done" /\ worker[1].pc # "none"
    /\ \A r \in ReqIds : r # 1 => worker[r].pc = "none"

\* some YAML document of the directory does not parse
HasBadDoc(dir) ==
    \E i \in 1..Len(dir) : dir[i].ext \in {"yml", "yaml"} /\ ~dir[i].parses

\* C19: a config reload in which some document fails to parse aborts as a
\* whole: it is answered with an error and the registry is the mapping
\* that was in force before it, and a later listing reads that mapping.
C19_FailedReloadKeepsRegistry ==
    [][/\ (last'.op = "reload" /\ HasBadDoc(last'.dir)) =>
              /\ last'.code = 500
              /\ PROJECT_CONFIGS' = PROJECT_CONFIGS
       /\ (last' # last /\ last'.op = "projects") =>
              /\ last'.projects = ProjectNames(PROJECT_CONFIGS)
              /\ PROJECT_CONFIGS' = PROJECT_CONFIGS]_vars

\* a reload failed after a document that parsed had been read, and the
\* registry, not the initial one, holds nothing of that document
C19_Witness ==
    /\ last.op = "reload" /\ last.code = 500
    /\ Len(last.dir) = 2
    /\ last.dir[1] = YmlFile(DocFull) /\ ~last.dir[2].parses
    /\ PROJECT_CONFIGS # load_project_configs(InitDir).configs
    /\ \A r \in DOMAIN PROJECT_CONFIGS : PROJECT_CONFIGS[r] # DocFull

\* the repos a document lists
ReposOf(doc) ==
    IF "repos" \in DOMAIN doc
    THEN { doc.repos[k] : k \in 1..Len(doc.repos) }
    ELSE {}

\* the positions of the YAML documents of dir that list repo
Listing(dir, repo) ==
    { i \in 1..Len(dir) :
          dir[i].ext \in {"yml", "yaml"} /\ repo \in ReposOf(dir[i].doc) }

\* the directory the registry was last loaded from
LoadedDir == IF last.op = "reload" THEN last.dir ELSE InitDir

\* C20: after a successful load or reload the registry is exactly the
\* mapping of the documents of the config directory: its keys are the
\* repos some document lists, each maps to the last-read document that
\* lists it, and nothing else of the previous mapping is left.
C20_RegistryIsDirectory ==
    (last.op = "none" \/ (last.op = "reload" /\ last.code = 200)) =>
        /\ DOMAIN PROJECT_CONFIGS =
               UNION { ReposOf(LoadedDir[i].doc) :
                         i \in { k \in 1..Len(LoadedDir) :
                                   LoadedDir[k].ext \in {"yml", "yaml"} } }
        /\ \A repo \in DOMAIN PROJECT_CONFIGS :
               \E i \in Listing(LoadedDir, repo) :
                   /\ \A k \in Listing(LoadedDir, repo) : k <= i
                   /\ PROJECT_CONFIGS[repo] = LoadedDir[i].doc

\* a reload of two documents that both list repoA: repoA maps to the
\* second one and repoB of the previous mapping is gone
C20_Witness ==
    /\ last.op = "reload" /\ last.code = 200
    /\ Len(last.dir) = 2
    /\ Listing(last.dir, "repoA") = {1, 2}
    /\ last.dir[1].doc # last.dir[2].doc
    /\ PROJECT_CONFIGS["repoA"] = last.dir[2].doc
    /\ "repoB" \notin DOMAIN PROJECT_CONFIGS

====
